---- MODULE Spec2Model ----
(***************************************************************************)
(* Model of RolloutPlanner (src/src/planners/rollout_planner.py).          *)
(*                                                                         *)
(* One call of create_rollout_plan is a run of the state machine: Init     *)
(* draws the call's arguments and the clock reading, and each action is    *)
(* one step of the method body, in program order.                          *)
(*                                                                         *)
(* A datetime is an integer number of ticks, TicksPerDay ticks to a day.   *)
(* A '%Y-%m-%d' string is the day number it denotes, so strftime drops the *)
(* time of day and strptime yields midnight.                               *)
(* A float that the code computes from integer inputs is the exact         *)
(* rational [n, d] (d > 0, lowest terms).                                  *)
(* The clock is read once per call: the readings of datetime.now() at      *)
(* lines 47 and 440 are taken to be the same instant.                      *)
(***************************************************************************)
EXTENDS Integers, Sequences, FiniteSets, TLC

VARIABLES
    pc,                 \* position in create_rollout_plan
    now,                \* datetime.now(), fixed for the call
    release_date,       \* argument: the release date string
    budget_total_arg,   \* argument: budget_total
    campaign_weeks_arg, \* argument: campaign_weeks
    movie_profile,      \* argument: popularity, budget, vote_count fields
    ranked_regions,     \* comparison['ranked_regions']
    release_dt,         \* parsed release datetime
    planning_parameters,\* result of _derive_campaign_parameters
    campaign_start,     \* release_dt - timedelta(weeks=campaign_weeks)
    phases,             \* result of _create_phases
    budget_allocation,  \* result of _allocate_budget
    timeline,           \* result of _create_timeline
    plan                \* the returned dict (campaign_overview, key_milestones)

vars == <<pc, now, release_date, budget_total_arg, campaign_weeks_arg,
          movie_profile, ranked_regions, release_dt, planning_parameters,
          campaign_start, phases, budget_allocation, timeline, plan>>

----------------------------------------------------------------------------
(* Bounds of the model *)

TicksPerDay == 2
MaxTierRegions == 5
MaxPlanRegions == 2
MaxAllocRegions == 5
MaxOverrideWeeks == 16
NowDay == 1000

(* Program constants *)

MinCampaignWeeks == 4
MaxCampaignWeeks == 16
SustainWeeks == 6
DefaultPopularity == 45
IndieBaseline == 350000
MinBudget == 250000
MaxBudget == 20000000
BudgetStep == 50000
FallbackDays == 60
TentpoleBudget == 150000000

----------------------------------------------------------------------------
(* Values of dynamically typed arguments *)

None == [kind |-> "none", val |-> 0]
NonNumeric == [kind |-> "bad", val |-> 0]
Num(v) == [kind |-> "num", val |-> v]
DateStr(d) == [kind |-> "date", val |-> d]
Unparseable == [kind |-> "bad", val |-> 0]

Min(a, b) == IF a <= b THEN a ELSE b
Max(a, b) == IF a >= b THEN a ELSE b
Abs(a) == IF a < 0 THEN 0 - a ELSE a

RECURSIVE GCD(_, _)
GCD(a, b) == IF b = 0 THEN a ELSE GCD(b, a % b)

(* Exact rationals *)
Rat(n, d) == LET g == GCD(Abs(n), d) IN [n |-> n \div g, d |-> d \div g]

(* x * (a / b), b > 0 *)
RMul(x, a, b) ==
    LET f == Rat(a, b)
        g1 == GCD(Abs(x.n), f.d)
        g2 == GCD(Abs(f.n), x.d)
    IN Rat((x.n \div g1) * (f.n \div g2), (x.d \div g2) * (f.d \div g1))

(* x < k for an integer k *)
RLess(x, k) == (x.n \div x.d) < k

(* Python 3 round(): nearest integer, ties to even, of n/d with d > 0 *)
RoundHalfEven(n, d) ==
    LET q == n \div d
        r == n % d
    IN IF 2 * r < d THEN q
       ELSE IF 2 * r > d THEN q + 1
       ELSE IF q % 2 = 0 THEN q ELSE q + 1

(* math.ceil(n / d) *)
Ceil(n, d) == 0 - ((0 - n) \div d)

----------------------------------------------------------------------------
(* datetime *)

strftime(dt) == dt \div TicksPerDay
strptime(s) == s * TicksPerDay
timedelta_days(n) == n * TicksPerDay
timedelta_weeks(n) == n * 7 * TicksPerDay
days(td) == td \div TicksPerDay

----------------------------------------------------------------------------
(* _derive_campaign_parameters *)

TierCount(regions, t) == Cardinality({i \in DOMAIN regions : regions[i].tier = t})

(* Variant: a missing or non-numeric popularity counts as 0 *)
PopularityDefaultZero(mp) ==
    IF mp.popularity.kind = "num" THEN mp.popularity.val ELSE 0

(* float(movie_profile.get('popularity', 45) or 45), 45.0 when that raises *)
Popularity(mp) ==
    IF mp.popularity.kind = "num" /\ mp.popularity.val # 0
    THEN mp.popularity.val
    ELSE DefaultPopularity

(* float(movie_profile.get('budget') or 0), 0.0 when that raises *)
ProductionBudget(mp) ==
    IF mp.budget.kind = "num" THEN mp.budget.val ELSE 0

(* int(movie_profile.get('vote_count') or 0), 0 when that raises *)
VoteCount(mp) ==
    IF mp.vote_count.kind = "num" THEN mp.vote_count.val ELSE 0

(* Variant: whole weeks only, release_gap_days // 7 *)
ReleaseGapWeeksFloor(rdt, nw) ==
    LET release_gap_days == Max(0, days(rdt - nw))
    IN release_gap_days \div 7

ReleaseGapWeeks(rdt, nw) ==
    LET release_gap_days == Max(0, days(rdt - nw))
    IN IF release_gap_days # 0 THEN Ceil(release_gap_days, 7) ELSE 0

BaseWeeks(release_gap_weeks) ==
    IF release_gap_weeks > 0
    THEN Min(Max(release_gap_weeks, MinCampaignWeeks), MaxCampaignWeeks)
    ELSE SustainWeeks

(* The duration drivers that fire, in the order the code appends them *)
DurationLogic(release_gap_weeks, popularity, tier_a_count, production_budget) ==
    <<IF release_gap_weeks > 0 THEN "runway" ELSE "sustain">>
    \o (IF popularity >= 70 THEN <<"popularity">> ELSE <<>>)
    \o (IF tier_a_count >= 3 THEN <<"tier_a">> ELSE <<>>)
    \o (IF production_budget >= TentpoleBudget THEN <<"tentpole">> ELSE <<>>)

(* Variant: no buffer week for a tentpole production *)
DerivedWeeksNoBuffer(release_gap_weeks, popularity, tier_a_count, production_budget) ==
    LET w0 == BaseWeeks(release_gap_weeks)
        w1 == IF popularity >= 70 THEN w0 + 1 ELSE w0
        w2 == IF tier_a_count >= 3 THEN w1 + 1 ELSE w1
    IN Max(MinCampaignWeeks, Min(w2, MaxCampaignWeeks))

DerivedWeeks(release_gap_weeks, popularity, tier_a_count, production_budget) ==
    LET w0 == BaseWeeks(release_gap_weeks)
        w1 == IF popularity >= 70 THEN w0 + 1 ELSE w0
        w2 == IF tier_a_count >= 3 THEN w1 + 1 ELSE w1
        w3 == IF production_budget >= TentpoleBudget THEN w2 + 1 ELSE w2
    IN Max(MinCampaignWeeks, Min(w3, MaxCampaignWeeks))

(* Percent of the production budget used as marketing baseline *)
MarketingRatio(production_budget) ==
    IF production_budget >= TentpoleBudget THEN 40
    ELSE IF production_budget >= 75000000 THEN 32
    ELSE IF production_budget >= 25000000 THEN 25
    ELSE 18

BaselineBudget(production_budget) ==
    IF production_budget > 0
    THEN RMul(Rat(production_budget, 1), MarketingRatio(production_budget), 100)
    ELSE Rat(IndieBaseline, 1)

(* 1 + (clamp(popularity, 0, 100) / 100) * 0.35 as a fraction over 10000 *)
PopularityFactor(popularity) ==
    10000 + 35 * Max(0, Min(popularity, 100))

(* 1 + min(a, 4) * 0.08 + min(b, 4) * 0.03 as a fraction over 100 *)
TierFactor(tier_a_count, tier_b_count) ==
    100 + 8 * Min(tier_a_count, 4) + 3 * Min(tier_b_count, 4)

RECURSIVE SumScores(_, _)
SumScores(regions, k) ==
    IF k = 0 THEN 0 ELSE regions[k].total_score + SumScores(regions, k - 1)

(* 1 + max(0, interest_index - 0.55) * 0.5, interest_index the mean of the   *)
(* first three total_score / 100 (0.55 with no region): <<num, den>>         *)
InterestFactor(regions) ==
    LET k == Min(Len(regions), 3)
        s == SumScores(regions, k)
    IN IF k = 0 THEN <<1, 1>>
       ELSE <<200 * k + Max(0, s - 55 * k), 200 * k>>

(* 1 + min(vote_count / 50000, 1) * 0.15 as a fraction over 1000000 *)
AudienceFactor(vote_count) ==
    1000000 + 3 * Min(vote_count, 50000)

(* Variant: the 20,000,000 ceiling is missing *)
ClampBudgetNoCeiling(base_budget) ==
    IF RLess(base_budget, MinBudget) THEN Rat(MinBudget, 1) ELSE base_budget

(* max(250000, min(base_budget, 20000000)) *)
ClampBudget(base_budget) ==
    IF RLess(base_budget, MinBudget) THEN Rat(MinBudget, 1)
    ELSE IF RLess(base_budget, MaxBudget) THEN base_budget
    ELSE Rat(MaxBudget, 1)

(* max(250000, int(round(computed_budget / 50000) * 50000)) *)
RoundBudget(computed_budget) ==
    LET units == RMul(computed_budget, 1, BudgetStep)
    IN Max(MinBudget, RoundHalfEven(units.n, units.d) * BudgetStep)

DerivedBudget(mp, regions) ==
    LET b0 == BaselineBudget(ProductionBudget(mp))
        b1 == RMul(b0, PopularityFactor(Popularity(mp)), 10000)
        b2 == RMul(b1, TierFactor(TierCount(regions, "A"), TierCount(regions, "B")), 100)
        f3 == InterestFactor(regions)
        b3 == RMul(b2, f3[1], f3[2])
        b4 == IF VoteCount(mp) # 0
              THEN RMul(b3, AudienceFactor(VoteCount(mp)), 1000000)
              ELSE b3
    IN RoundBudget(ClampBudget(b4))

(* Variant: the override goes through the [4, 16] clamp of the derivation *)
OverrideWeeksClamped(override_duration) ==
    Max(MinCampaignWeeks, Min(override_duration, MaxCampaignWeeks))

(* max(1, int(override_duration)) *)
OverrideWeeks(override_duration) == Max(1, override_duration)

(* int(x) of an override raises on a non-numeric value *)
OverrideRaises(override_budget, override_duration) ==
    override_duration.kind = "bad" \/ override_budget.kind = "bad"

DeriveCampaignParameters(mp, regions, override_budget, override_duration, rdt, nw) ==
    LET popularity == Popularity(mp)
        production_budget == ProductionBudget(mp)
        tier_a_count == TierCount(regions, "A")
        release_gap_weeks == ReleaseGapWeeks(rdt, nw)
    IN [ total_budget |->
            IF override_budget.kind # "none"
            THEN override_budget.val
            ELSE DerivedBudget(mp, regions),
         campaign_weeks |->
            IF override_duration.kind # "none"
            THEN OverrideWeeks(override_duration.val)
            ELSE DerivedWeeks(release_gap_weeks, popularity,
                              tier_a_count, production_budget),
         duration_logic |->
            IF override_duration.kind # "none"
            THEN <<"overridden">>
            ELSE DurationLogic(release_gap_weeks, popularity,
                               tier_a_count, production_budget),
         marketing_ratio |->
            IF override_budget.kind = "none" /\ production_budget > 0
            THEN MarketingRatio(production_budget)
            ELSE 0,
         popularity_factor |->
            IF override_budget.kind = "none" THEN PopularityFactor(popularity) ELSE 0,
         audience_factor |->
            IF override_budget.kind = "none" /\ VoteCount(mp) # 0
            THEN AudienceFactor(VoteCount(mp))
            ELSE 0,
         popularity |-> popularity,
         tier_a_markets |-> tier_a_count,
         release_gap_weeks |-> release_gap_weeks ]

----------------------------------------------------------------------------
(* _create_phases *)

TierRegions(regions, t) == SelectSeq(regions, LAMBDA r : r.tier = t)

RegionCodes(regions) == [i \in DOMAIN regions |-> regions[i].region]

(* Variant: the offset may reach total_weeks, the release date itself *)
OffsetUpToRelease(total_weeks, multiplier, min_week) ==
    IF total_weeks <= min_week
    THEN total_weeks
    ELSE Min(total_weeks,
             Max(min_week, RoundHalfEven(total_weeks * multiplier, 100)))

(* Variant: ties round up instead of to the even integer *)
OffsetHalfUp(total_weeks, multiplier, min_week) ==
    IF total_weeks <= min_week
    THEN Max(0, total_weeks - 1)
    ELSE Min(total_weeks - 1,
             Max(min_week, (total_weeks * multiplier + 50) \div 100))

(* _offset(multiplier, min_week), the multiplier given in hundredths *)
Offset(total_weeks, multiplier, min_week) ==
    IF total_weeks <= min_week
    THEN Max(0, total_weeks - 1)
    ELSE Min(total_weeks - 1,
             Max(min_week, RoundHalfEven(total_weeks * multiplier, 100)))

(* weight_map: the budget split weight of every tier that has a region *)
WeightMap(regions) ==
    LET a == Len(TierRegions(regions, "A"))
        b == Len(TierRegions(regions, "B"))
        c == Len(TierRegions(regions, "C"))
        w == [k \in {"A", "B", "C"} |->
                IF k = "A" THEN 40 + Min(a * 4, 20)
                ELSE IF k = "B" THEN 30 + Min(b * 3, 15)
                ELSE 20 + Min(c * 2, 10)]
        present == {k \in {"A", "B", "C"} : Len(TierRegions(regions, k)) > 0}
    IN [k \in present |-> w[k]]

OrderedKeys(weight_map) ==
    SelectSeq(<<"A", "B", "C">>, LAMBDA k : k \in DOMAIN weight_map)

RECURSIVE SumWeights(_, _, _)
SumWeights(weight_map, keys, n) ==
    IF n = 0 THEN 0 ELSE weight_map[keys[n]] + SumWeights(weight_map, keys, n - 1)

(* Variant: the last key is rounded like the others, no remainder assigned *)
RECURSIVE NormalizeLoopAllRounded(_, _, _, _, _)
NormalizeLoopAllRounded(weight_map, keys, total_weight, idx, running_total) ==
    IF idx > Len(keys) THEN <<>>
    ELSE LET pct == RoundHalfEven(weight_map[keys[idx]] * 100, total_weight)
         IN <<pct>> \o NormalizeLoopAllRounded(weight_map, keys, total_weight,
                                                idx + 1, running_total + pct)

(* The loop over ordered_keys: pct of key idx given the running total *)
RECURSIVE NormalizeLoop(_, _, _, _, _)
NormalizeLoop(weight_map, keys, total_weight, idx, running_total) ==
    IF idx > Len(keys) THEN <<>>
    ELSE LET rounded == RoundHalfEven(weight_map[keys[idx]] * 100, total_weight)
             pct == IF idx = Len(keys) THEN 100 - running_total ELSE rounded
         IN <<pct>> \o NormalizeLoop(weight_map, keys, total_weight,
                                      idx + 1, running_total + pct)

(* normalized_pct.get(k, 0) *)
NormalizedPct(regions, k) ==
    LET weight_map == WeightMap(regions)
        keys == OrderedKeys(weight_map)
        summed == SumWeights(weight_map, keys, Len(keys))
        total_weight == IF summed = 0 THEN 1 ELSE summed
        pcts == NormalizeLoop(weight_map, keys, total_weight, 1, 0)
        at == {i \in DOMAIN keys : keys[i] = k}
    IN IF at = {} THEN 0 ELSE pcts[CHOOSE i \in at : TRUE]

(* Variant: whole weeks plus one, the release week counted as well *)
PhaseDurationInclusive(start, release) == days(release - start) \div 7 + 1

(* _phase_duration(start) *)
PhaseDuration(start, release) == Max(1, Ceil(days(release - start), 7))

TierPhaseName(t) ==
    IF t = "A" THEN "Fan Ignition"
    ELSE IF t = "B" THEN "Social Proof Expansion"
    ELSE "Long-tail Sustain & Emerging Markets"

TierIntensity(t) ==
    IF t = "A" THEN "High" ELSE IF t = "B" THEN "Medium" ELSE "Low"

PhaseRecord(ordinal, t, start, release, regions) ==
    [ phase |-> ordinal,
      name |-> TierPhaseName(t),
      start_date |-> strftime(start),
      duration_weeks |-> PhaseDuration(start, release),
      regions |-> RegionCodes(TierRegions(regions, t)),
      intensity |-> TierIntensity(t),
      budget_percentage |-> NormalizedPct(regions, t) ]

(* The phase of tier B or C appended to the phases built so far *)
LaterPhase(built, t, offset_weeks, regions, start, release) ==
    LET phase_start == Min(release, start + timedelta_weeks(offset_weeks))
    IN IF TierRegions(regions, t) # <<>> /\ start < release /\ phase_start < release
       THEN Append(built, PhaseRecord(Len(built) + 1, t, phase_start, release, regions))
       ELSE built

CreatePhases(regions, start, release, weeks) ==
    LET total_weeks == Max(1, weeks)
        p1 == IF TierRegions(regions, "A") # <<>>
              THEN <<PhaseRecord(1, "A", start, release, regions)>>
              ELSE <<>>
        p2 == LaterPhase(p1, "B", Offset(total_weeks, 35, 1), regions, start, release)
        p3 == LaterPhase(p2, "C", Offset(total_weeks, 65, 2), regions, start, release)
    IN IF \A t \in {"A", "B", "C"} : TierRegions(regions, t) = <<>>
       THEN <<>>
       ELSE p3

----------------------------------------------------------------------------
(* _allocate_budget *)

RECURSIVE SumSuggested(_, _)
SumSuggested(regions, n) ==
    IF n = 0 THEN 0
    ELSE regions[n].suggested_budget_pct + SumSuggested(regions, n - 1)

(* Variant: the percentage is truncated to 2 decimals, not rounded *)
TruncatedPercentage(suggested, total_pct) ==
    IF total_pct > 0 THEN (suggested * 10000) \div total_pct ELSE 0

(* round(pct, 2) in hundredths of a percent, pct = suggested / total_pct * 100 *)
RoundedPercentage(suggested, total_pct) ==
    IF total_pct > 0 THEN RoundHalfEven(suggested * 10000, total_pct) ELSE 0

(* round(amount, 2) in cents, amount = (pct / 100) * total_budget *)
RoundedAmount(suggested, total_pct, total_budget) ==
    IF total_pct > 0
    THEN LET whole == (suggested * total_budget) \div total_pct
             rest == (suggested * total_budget) % total_pct
         IN [dollars |-> whole, cents |-> RoundHalfEven(rest * 100, total_pct)]
    ELSE [dollars |-> 0, cents |-> 0]

AmountLess(x, y) ==
    100 * (x.dollars - y.dollars) + (x.cents - y.cents) < 0

Allocation(r, total_pct, total_budget) ==
    [ region |-> r.region,
      budget_amount |-> RoundedAmount(r.suggested_budget_pct, total_pct, total_budget),
      percentage |-> RoundedPercentage(r.suggested_budget_pct, total_pct),
      tier |-> r.tier ]

(* Variant: the allocations are sorted in ascending order of amount *)
RECURSIVE InsertByAmountAscending(_, _)
InsertByAmountAscending(sorted, x) ==
    IF sorted = <<>> THEN <<x>>
    ELSE IF AmountLess(x.budget_amount, Head(sorted).budget_amount)
         THEN <<x>> \o sorted
         ELSE <<Head(sorted)>> \o InsertByAmountAscending(Tail(sorted), x)

(* sorted(allocations, key=budget_amount, reverse=True): stable *)
RECURSIVE InsertByAmount(_, _)
InsertByAmount(sorted, x) ==
    IF sorted = <<>> THEN <<x>>
    ELSE IF AmountLess(Head(sorted).budget_amount, x.budget_amount)
         THEN <<x>> \o sorted
         ELSE <<Head(sorted)>> \o InsertByAmount(Tail(sorted), x)

RECURSIVE SortByAmount(_, _)
SortByAmount(allocations, n) ==
    IF n = 0 THEN <<>>
    ELSE InsertByAmount(SortByAmount(allocations, n - 1), allocations[n])

AllocateBudget(regions, total_budget) ==
    LET total_pct == SumSuggested(regions, Len(regions))
        allocations == [i \in DOMAIN regions |->
                          Allocation(regions[i], total_pct, total_budget)]
    IN SortByAmount(allocations, Len(allocations))

----------------------------------------------------------------------------
(* _create_timeline *)

(* Variant: the scan stops at the first phase that has started *)
RECURSIVE ActivePhaseFirst(_, _, _)
ActivePhaseFirst(phs, current, n) ==
    IF n = 0 THEN 0
    ELSE LET earlier == ActivePhaseFirst(phs, current, n - 1)
         IN IF earlier # 0 THEN earlier
            ELSE IF strptime(phs[n].start_date) <= current THEN n
            ELSE 0

(* Variant: a phase is active only from the day after its start_date *)
RECURSIVE ActivePhaseStrictlyBefore(_, _, _)
ActivePhaseStrictlyBefore(phs, current, n) ==
    IF n = 0 THEN 0
    ELSE IF strptime(phs[n].start_date) < strptime(strftime(current)) THEN n
    ELSE ActivePhaseStrictlyBefore(phs, current, n - 1)

(* The last phase in list order whose start_date is <= current; 0 if none *)
RECURSIVE ActivePhase(_, _, _)
ActivePhase(phs, current, n) ==
    IF n = 0 THEN 0
    ELSE IF strptime(phs[n].start_date) <= current THEN n
    ELSE ActivePhase(phs, current, n - 1)

(* Variant: the thresholds are exclusive, > 6, > 4, > 2 *)
WeeklyActivitiesStrict(weeks_to_release) ==
    IF weeks_to_release > 6 THEN "teaser"
    ELSE IF weeks_to_release > 4 THEN "trailer"
    ELSE IF weeks_to_release > 2 THEN "presale"
    ELSE "final"

(* _get_weekly_activities *)
WeeklyActivities(weeks_to_release) ==
    IF weeks_to_release >= 6 THEN "teaser"
    ELSE IF weeks_to_release >= 4 THEN "trailer"
    ELSE IF weeks_to_release >= 2 THEN "presale"
    ELSE "final"

(* Variant: end_date is the last day of the week, not the next week's start *)
TimelineWeekInclusiveEnd(phs, week, current, release) ==
    LET week_end == Min(current + timedelta_days(7), release)
        active == ActivePhase(phs, current, Len(phs))
    IN [ week |-> week,
         start_date |-> strftime(current),
         end_date |-> strftime(week_end - timedelta_days(1)),
         phase |-> IF active # 0 THEN phs[active].name ELSE "Pre-campaign",
         active_regions |-> IF active # 0 THEN phs[active].regions ELSE <<>>,
         key_activities |-> WeeklyActivities(days(release - current) \div 7),
         intensity |-> IF active # 0 THEN phs[active].intensity ELSE "Low" ]

TimelineWeek(phs, week, current, release) ==
    LET week_end == Min(current + timedelta_days(7), release)
        active == ActivePhase(phs, current, Len(phs))
    IN [ week |-> week,
         start_date |-> strftime(current),
         end_date |-> strftime(week_end),
         phase |-> IF active # 0 THEN phs[active].name ELSE "Pre-campaign",
         active_regions |-> IF active # 0 THEN phs[active].regions ELSE <<>>,
         key_activities |-> WeeklyActivities(days(release - current) \div 7),
         intensity |-> IF active # 0 THEN phs[active].intensity ELSE "Low" ]

RECURSIVE TimelineLoop(_, _, _, _)
TimelineLoop(phs, week, current, release) ==
    IF current < release
    THEN <<TimelineWeek(phs, week, current, release)>>
         \o TimelineLoop(phs, week + 1,
                         Min(current + timedelta_days(7), release), release)
    ELSE <<>>

CreateTimeline(phs, start, release) == TimelineLoop(phs, 1, start, release)

----------------------------------------------------------------------------
(* _generate_milestones *)

Milestone(dt, name) == [date |-> strftime(dt), milestone |-> name]

(* Variant: a milestone on the start date itself is listed too *)
OptionalMilestoneOnOrAfter(dt, start, name) ==
    IF dt >= start THEN <<Milestone(dt, name)>> ELSE <<>>

(* A milestone that is listed only when its date is after the start *)
OptionalMilestone(dt, start, name) ==
    IF dt > start THEN <<Milestone(dt, name)>> ELSE <<>>

(* sorted(milestones, key=date): stable *)
RECURSIVE InsertByDate(_, _)
InsertByDate(sorted, x) ==
    IF sorted = <<>> THEN <<x>>
    ELSE IF x.date < Head(sorted).date
         THEN <<x>> \o sorted
         ELSE <<Head(sorted)>> \o InsertByDate(Tail(sorted), x)

RECURSIVE SortByDate(_, _)
SortByDate(ms, n) ==
    IF n = 0 THEN <<>> ELSE InsertByDate(SortByDate(ms, n - 1), ms[n])

GenerateMilestones(start, release) ==
    LET ms == <<Milestone(start, "Campaign Launch")>>
              \o OptionalMilestone(release - timedelta_weeks(4), start,
                                   "Official Trailer Release")
              \o OptionalMilestone(release - timedelta_weeks(2), start,
                                   "Ticket Pre-Sales Open")
              \o OptionalMilestone(release - timedelta_weeks(1), start,
                                   "World Premiere")
              \o <<Milestone(release, "RELEASE DAY")>>
    IN SortByDate(ms, Len(ms))

----------------------------------------------------------------------------
(* create_rollout_plan *)

ParseReleaseDate ==
    /\ pc = "start"
    /\ release_dt' = IF release_date.kind = "date"
                     THEN strptime(release_date.val)
                     ELSE now + timedelta_days(FallbackDays)
    /\ pc' = "parsed"
    /\ UNCHANGED <<now, release_date, budget_total_arg, campaign_weeks_arg,
                   movie_profile, ranked_regions, planning_parameters,
                   campaign_start, phases, budget_allocation, timeline, plan>>

(* int() of a non-numeric override raises out of create_rollout_plan *)
DeriveRaises ==
    /\ pc = "parsed"
    /\ OverrideRaises(budget_total_arg, campaign_weeks_arg)
    /\ pc' = "raised"
    /\ UNCHANGED <<now, release_date, budget_total_arg, campaign_weeks_arg,
                   movie_profile, ranked_regions, release_dt, planning_parameters,
                   campaign_start, phases, budget_allocation, timeline, plan>>

(* Variant: timedelta(days=campaign_weeks) *)
CampaignStartDays(rdt, weeks) == rdt - timedelta_days(weeks)

CampaignStart(rdt, weeks) == rdt - timedelta_weeks(weeks)

Derive ==
    /\ pc = "parsed"
    /\ ~OverrideRaises(budget_total_arg, campaign_weeks_arg)
    /\ planning_parameters' =
          DeriveCampaignParameters(movie_profile, ranked_regions, budget_total_arg,
                                   campaign_weeks_arg, release_dt, now)
    /\ campaign_start' = CampaignStart(release_dt, planning_parameters'.campaign_weeks)
    /\ pc' = "derived"
    /\ UNCHANGED <<now, release_date, budget_total_arg, campaign_weeks_arg,
                   movie_profile, ranked_regions, release_dt,
                   phases, budget_allocation, timeline, plan>>

Phases ==
    /\ pc = "derived"
    /\ phases' = CreatePhases(ranked_regions, campaign_start, release_dt,
                              planning_parameters.campaign_weeks)
    /\ pc' = "phased"
    /\ UNCHANGED <<now, release_date, budget_total_arg, campaign_weeks_arg,
                   movie_profile, ranked_regions, release_dt, planning_parameters,
                   campaign_start, budget_allocation, timeline, plan>>

Allocate ==
    /\ pc = "phased"
    /\ budget_allocation' = AllocateBudget(ranked_regions,
                                           planning_parameters.total_budget)
    /\ pc' = "allocated"
    /\ UNCHANGED <<now, release_date, budget_total_arg, campaign_weeks_arg,
                   movie_profile, ranked_regions, release_dt, planning_parameters,
                   campaign_start, phases, timeline, plan>>

Timeline ==
    /\ pc = "allocated"
    /\ timeline' = CreateTimeline(phases, campaign_start, release_dt)
    /\ pc' = "timelined"
    /\ UNCHANGED <<now, release_date, budget_total_arg, campaign_weeks_arg,
                   movie_profile, ranked_regions, release_dt, planning_parameters,
                   campaign_start, phases, budget_allocation, plan>>

CampaignOverview ==
    [ release_date |-> release_date,
      campaign_start |-> strftime(campaign_start),
      duration_weeks |-> planning_parameters.campaign_weeks,
      total_budget |-> planning_parameters.total_budget,
      target_regions |-> Len(ranked_regions) ]

Return ==
    /\ pc = "timelined"
    /\ plan' = [ campaign_overview |-> CampaignOverview,
                 key_milestones |-> GenerateMilestones(campaign_start, release_dt) ]
    /\ pc' = "done"
    /\ UNCHANGED <<now, release_date, budget_total_arg, campaign_weeks_arg,
                   movie_profile, ranked_regions, release_dt, planning_parameters,
                   campaign_start, phases, budget_allocation, timeline>>

Next ==
    \/ ParseReleaseDate
    \/ DeriveRaises
    \/ Derive
    \/ Phases
    \/ Allocate
    \/ Timeline
    \/ Return

----------------------------------------------------------------------------
(* The calls explored *)

NoProfile == [popularity |-> None, budget |-> None, vote_count |-> None]

Tiers == <<"A", "B", "C">>
TierScore == <<80, 60, 40>>
TierSuggestedPct == <<30, 15, 5>>

(* a Tier-A regions, then b Tier-B, then c Tier-C, as the ranking orders them *)
TieredRegions(a, b, c) ==
    [i \in 1..(a + b + c) |->
        LET t == IF i <= a THEN 1 ELSE IF i <= a + b THEN 2 ELSE 3
        IN [ region |-> i,
             tier |-> Tiers[t],
             total_score |-> TierScore[t],
             suggested_budget_pct |-> TierSuggestedPct[t] ]]

SuggestedPcts == {0, 1, 3}

UniformRegions(pcts) ==
    [i \in DOMAIN pcts |->
        [region |-> i, tier |-> "B", total_score |-> 50,
         suggested_budget_pct |-> pcts[i]]]

ReleaseDays == {NowDay - 3, NowDay + 1, NowDay + 45, NowDay + 120}

Fresh ==
    /\ pc = "start"
    /\ release_dt = 0
    /\ planning_parameters = <<>>
    /\ campaign_start = 0
    /\ phases = <<>>
    /\ budget_allocation = <<>>
    /\ timeline = <<>>
    /\ plan = <<>>

(* Scheduling: few regions per tier, every duration override and release date *)
InitPlan ==
    /\ now \in {strptime(NowDay) + t : t \in 0..(TicksPerDay - 1)}
    /\ release_date \in {DateStr(d) : d \in ReleaseDays} \cup {Unparseable}
    /\ campaign_weeks_arg \in {None, NonNumeric}
                              \cup {Num(w) : w \in 0..MaxOverrideWeeks} \cup {Num(20)}
    /\ budget_total_arg \in {None, NonNumeric, Num(2000000), Num(123456)}
    /\ movie_profile = NoProfile
    /\ \E a \in 0..MaxPlanRegions, b \in 0..MaxPlanRegions, c \in 0..MaxPlanRegions :
          ranked_regions = TieredRegions(a, b, c)

(* Budget split: every number of regions per tier *)
InitSplit ==
    /\ now = strptime(NowDay)
    /\ release_date = DateStr(NowDay + 45)
    /\ campaign_weeks_arg = None
    /\ budget_total_arg = None
    /\ movie_profile = NoProfile
    /\ \E a \in 0..MaxTierRegions, b \in 0..MaxTierRegions, c \in 0..MaxTierRegions :
          ranked_regions = TieredRegions(a, b, c)

(* Parameter derivation: every movie signal, tier count and release gap *)
InitDerive ==
    /\ now = strptime(NowDay)
    /\ release_date \in {DateStr(d) : d \in ReleaseDays \cup {NowDay + 90}}
    /\ campaign_weeks_arg = None
    /\ budget_total_arg = None
    /\ movie_profile \in
          [ popularity : {None, NonNumeric} \cup {Num(p) : p \in {0, 70, 85, 120, 0 - 10}},
            budget : {None, NonNumeric}
                     \cup {Num(b) : b \in {10000000, 30000000, 100000000, 200000000}},
            vote_count : {None, NonNumeric} \cup {Num(v) : v \in {50000, 0 - 50000}} ]
    /\ \E a \in 0..4, b \in 0..1 : ranked_regions = TieredRegions(a, b, 0)

(* Allocation: every short sequence of suggested percentages *)
InitAlloc ==
    /\ now = strptime(NowDay)
    /\ release_date = DateStr(NowDay + 45)
    /\ campaign_weeks_arg = None
    /\ budget_total_arg = None
    /\ movie_profile = NoProfile
    /\ \E n \in 0..MaxAllocRegions :
          \E pcts \in [1..n -> SuggestedPcts] : ranked_regions = UniformRegions(pcts)

Init ==
    /\ Fresh
    /\ (InitPlan \/ InitSplit \/ InitDerive \/ InitAlloc)

Spec == Init /\ [][Next]_vars

----------------------------------------------------------------------------
(* Properties *)

Derived == pc \in {"derived", "phased", "allocated", "timelined", "done"}
Phased == pc \in {"phased", "allocated", "timelined", "done"}
Allocated == pc \in {"allocated", "timelined", "done"}
Timelined == pc \in {"timelined", "done"}
Returned == pc = "done"

NoDurationOverride == campaign_weeks_arg.kind = "none"
NoBudgetOverride == budget_total_arg.kind = "none"

PresentTiers == {t \in {"A", "B", "C"} : TierCount(ranked_regions, t) > 0}

RECURSIVE SumBudgetPercentage(_, _)
SumBudgetPercentage(phs, n) ==
    IF n = 0 THEN 0 ELSE phs[n].budget_percentage + SumBudgetPercentage(phs, n - 1)

RECURSIVE SumPercentage(_, _)
SumPercentage(allocations, n) ==
    IF n = 0 THEN 0 ELSE allocations[n].percentage + SumPercentage(allocations, n - 1)

(* C1: when some tier among A, B, C has a region, the budget_percentage of   *)
(* the emitted phases sum to exactly 100, each lies in 0..100, and every     *)
(* phase but the last is the nearest integer to its tier's share of the      *)
(* weights, so the last present tier carries the rounding remainder.         *)
C1_PhasePercentagesSumTo100 ==
    (Phased /\ PresentTiers # {}) =>
        /\ phases # <<>>
        /\ SumBudgetPercentage(phases, Len(phases)) = 100
        /\ \A i \in DOMAIN phases : phases[i].budget_percentage \in 0..100
        /\ \A i \in 1..(Len(phases) - 1) :
              LET wm == WeightMap(ranked_regions)
                  keys == OrderedKeys(wm)
                  total == SumWeights(wm, keys, Len(keys))
                  diff == 100 * wm[keys[i]] - phases[i].budget_percentage * total
              IN 2 * Abs(diff) <= total

(* Three phases whose last one differs from its own rounded share *)
C1_Witness ==
    /\ Returned
    /\ Len(phases) = 3
    /\ LET wm == WeightMap(ranked_regions)
           total == SumWeights(wm, OrderedKeys(wm), 3)
       IN phases[3].budget_percentage # RoundHalfEven(100 * wm["C"], total)

(* C2: the timeline tiles [campaign_start, release_date): weeks are numbered *)
(* 1, 2, 3, ..., week 1 starts on campaign_start, every week starts where    *)
(* the previous one ends, no week is longer than 7 days, and the last week   *)
(* ends on the release date.                                                 *)
C2_TimelineTiles ==
    Timelined =>
        /\ timeline # <<>>
        /\ \A i \in DOMAIN timeline :
              /\ timeline[i].week = i
              /\ timeline[i].start_date < timeline[i].end_date
              /\ timeline[i].end_date - timeline[i].start_date <= 7
              /\ i > 1 => timeline[i].start_date = timeline[i - 1].end_date
        /\ timeline[1].start_date = strftime(campaign_start)
        /\ timeline[Len(timeline)].end_date = strftime(release_dt)

C2_Witness ==
    /\ Returned
    /\ Len(timeline) >= 3
    /\ release_date.kind = "bad"
    /\ now % TicksPerDay # 0

(* C3: without a duration override campaign_weeks is in 4..16; without a     *)
(* budget override total_budget is in 250000..20000000 and a multiple of     *)
(* 50000.                                                                    *)
C3_DerivedParametersInRange ==
    (Derived /\ NoDurationOverride /\ NoBudgetOverride) =>
        /\ planning_parameters.campaign_weeks \in 4..16
        /\ planning_parameters.total_budget >= 250000
        /\ planning_parameters.total_budget <= 20000000
        /\ planning_parameters.total_budget % 50000 = 0

(* A tentpole whose unclamped budget and duration both exceed the ceilings *)
C3_Witness ==
    /\ Derived /\ NoDurationOverride /\ NoBudgetOverride
    /\ ProductionBudget(movie_profile) = 200000000
    /\ planning_parameters.total_budget = 20000000
    /\ planning_parameters.campaign_weeks = 16

(* C4 as stated: with a positive total of suggested_budget_pct the rounded   *)
(* percentages (in hundredths of a percent) sum to 100.00 within 0.01, for   *)
(* any number of regions; with no region the sum is 0.                       *)
C4_SumWithinOneHundredth ==
    Allocated =>
        LET total_pct == SumSuggested(ranked_regions, Len(ranked_regions))
            summed == SumPercentage(budget_allocation, Len(budget_allocation))
        IN /\ (ranked_regions # <<>> /\ total_pct > 0) => Abs(summed - 10000) <= 1
           /\ ranked_regions = <<>> => summed = 0

(* C4 amended: the rounded percentages sum to 100.00 within 0.005 for every  *)
(* region (so within 0.01 up to 3 regions); with no region the sum is 0.     *)
C4_SumWithinHalfHundredthPerRegion ==
    Allocated =>
        LET total_pct == SumSuggested(ranked_regions, Len(ranked_regions))
            summed == SumPercentage(budget_allocation, Len(budget_allocation))
        IN /\ Len(budget_allocation) = Len(ranked_regions)
           /\ (ranked_regions # <<>> /\ total_pct > 0) =>
                 2 * Abs(summed - 10000) <= Len(ranked_regions)
           /\ ranked_regions = <<>> => summed = 0

(* Five regions whose rounded percentages sum to 100.02 *)
C4_Witness ==
    /\ Allocated
    /\ Len(ranked_regions) = 5
    /\ SumPercentage(budget_allocation, Len(budget_allocation)) = 10002

(* Number of milestones with the given name *)
MilestoneCount(ms, name) == Cardinality({i \in DOMAIN ms : ms[i].milestone = name})

(* The named milestone is listed once, on the given date, exactly when that  *)
(* date is after the campaign start date; otherwise it is not listed.        *)
ListedIffAfterStart(ms, name, date, start) ==
    IF date > start
    THEN /\ MilestoneCount(ms, name) = 1
         /\ \E i \in DOMAIN ms : ms[i].milestone = name /\ ms[i].date = date
    ELSE MilestoneCount(ms, name) = 0

(* C5: the milestones are strictly ascending by date, the first is Campaign  *)
(* Launch on campaign_start, the last is Release Day on the release date,    *)
(* and Trailer Release (release - 4 weeks), Pre-sales Open (release - 2      *)
(* weeks) and Premiere (release - 1 week) are listed exactly when their date *)
(* is strictly after campaign_start.                                         *)
C5_MilestonesAscending ==
    Returned =>
        LET ms == plan.key_milestones
            start == strftime(campaign_start)
            release == strftime(release_dt)
        IN /\ Len(ms) >= 2
           /\ \A i \in 1..(Len(ms) - 1) : ms[i].date < ms[i + 1].date
           /\ ms[1] = [date |-> start, milestone |-> "Campaign Launch"]
           /\ ms[Len(ms)] = [date |-> release, milestone |-> "RELEASE DAY"]
           /\ MilestoneCount(ms, "Campaign Launch") = 1
           /\ MilestoneCount(ms, "RELEASE DAY") = 1
           /\ ListedIffAfterStart(ms, "Official Trailer Release", release - 28, start)
           /\ ListedIffAfterStart(ms, "Ticket Pre-Sales Open", release - 14, start)
           /\ ListedIffAfterStart(ms, "World Premiere", release - 7, start)

(* A 4-week campaign: the trailer date is the start date and is left out *)
C5_Witness ==
    /\ Returned
    /\ planning_parameters.campaign_weeks = 4
    /\ Len(plan.key_milestones) = 4

(* C6: for a parseable release date the campaign_start reported in           *)
(* campaign_overview is the reported release_date minus duration_weeks x 7   *)
(* days, duration_weeks derived or overridden.                               *)
C6_StartIsReleaseMinusWeeks ==
    (Returned /\ release_date.kind = "date") =>
        LET overview == plan.campaign_overview
        IN overview.campaign_start =
              overview.release_date.val - 7 * overview.duration_weeks

C6_Witness ==
    /\ Returned
    /\ release_date.kind = "date"
    /\ campaign_weeks_arg = Num(3)
    /\ plan.campaign_overview.duration_weeks = 3

(* C7: exactly one phase is emitted for every tier among A, B, C that has a  *)
(* region, in A, B, C order with ordinals 1..n (no B or C phase is dropped), *)
(* and when tier A is present phase 1 starts on campaign_start.              *)
C7_OnePhasePerPresentTier ==
    Phased =>
        LET present == SelectSeq(<<"A", "B", "C">>, LAMBDA t : t \in PresentTiers)
        IN /\ Len(phases) = Len(present)
           /\ Len(phases) <= 3
           /\ \A i \in DOMAIN phases :
                 /\ phases[i].phase = i
                 /\ phases[i].name = TierPhaseName(present[i])
                 /\ phases[i].regions =
                       RegionCodes(TierRegions(ranked_regions, present[i]))
           /\ "A" \in PresentTiers => phases[1].start_date = strftime(campaign_start)

(* All three tiers in a one-week campaign *)
C7_Witness ==
    /\ Returned
    /\ planning_parameters.campaign_weeks = 1
    /\ Len(phases) = 3

(* C8 as stated: create_rollout_plan never raises on a non-numeric           *)
(* popularity, production budget, vote count, duration override or budget    *)
(* override; the movie signals fall back to 45, 0 and 0 and a complete plan  *)
(* is returned.                                                              *)
C8_NonNumericNeverRaises ==
    /\ pc # "raised"
    /\ Derived =>
          /\ movie_profile.popularity.kind = "bad" =>
                planning_parameters.popularity = 45
          /\ movie_profile.budget.kind = "bad" =>
                ProductionBudget(movie_profile) = 0
          /\ movie_profile.vote_count.kind = "bad" =>
                VoteCount(movie_profile) = 0

TentpoleScenario ==
    /\ Derived /\ NoDurationOverride /\ NoBudgetOverride
    /\ movie_profile.budget = Num(200000000)
    /\ movie_profile.popularity = Num(85)
    /\ TierCount(ranked_regions, "A") = 4

AllThreeBonuses ==
    /\ planning_parameters.marketing_ratio = 40
    /\ \A d \in {"popularity", "tier_a", "tentpole"} :
          \E i \in DOMAIN planning_parameters.duration_logic :
             planning_parameters.duration_logic[i] = d

(* C10 as stated: in the scenario the marketing ratio is 0.40, all three     *)
(* +1-week bonuses are applied and campaign_weeks is the 16-week ceiling,    *)
(* for every release gap.                                                    *)
C10_TentpoleHitsCeiling ==
    TentpoleScenario =>
        /\ AllThreeBonuses
        /\ planning_parameters.campaign_weeks = 16

(* C10 amended: in the scenario the marketing ratio is 0.40, all three       *)
(* bonuses are applied and campaign_weeks is min(16, base + 3), base being   *)
(* clamp(release_gap_weeks, 4, 16) for release_gap_weeks > 0 and 6           *)
(* otherwise: the 16-week ceiling exactly when release_gap_weeks >= 13.      *)
C10_TentpoleBasePlusThree ==
    TentpoleScenario =>
        LET gap == planning_parameters.release_gap_weeks
            base == IF gap <= 0 THEN 6
                    ELSE IF gap < 4 THEN 4 ELSE IF gap > 16 THEN 16 ELSE gap
        IN /\ AllThreeBonuses
           /\ planning_parameters.campaign_weeks = Min(16, base + 3)
           /\ planning_parameters.campaign_weeks = 16 <=> gap >= 13

(* The scenario 13 weeks before release: 13 + 3 reaches the ceiling *)
C10_Witness ==
    /\ TentpoleScenario
    /\ planning_parameters.release_gap_weeks = 13
    /\ planning_parameters.campaign_weeks = 16

(* C11 as stated: with an unparseable release_date the call does not raise   *)
(* and the plan is scheduled against now + 60 days: campaign_start is        *)
(* now + 60 days - campaign_weeks, the last timeline week ends on            *)
(* now + 60 days and the Release Day milestone is dated now + 60 days.       *)
C11_UnparseableNeverRaises ==
    release_date.kind = "bad" =>
        /\ pc # "raised"
        /\ Returned =>
              LET fallback == strftime(now) + 60
                  ms == plan.key_milestones
              IN /\ plan.campaign_overview.campaign_start =
                       fallback - 7 * plan.campaign_overview.duration_weeks
                 /\ timeline[Len(timeline)].end_date = fallback
                 /\ ms[Len(ms)] = [date |-> fallback, milestone |-> "RELEASE DAY"]

(* C12: a duration override gives campaign_weeks = max(1, override) with no  *)
(* derivation step applied, a budget override gives total_budget = the       *)
(* override with no clamp or rounding, both are reported as such in          *)
(* campaign_overview, and the parameter that is not overridden is what the   *)
(* derivation without any override yields.                                   *)
C12_OverridesUsedVerbatim ==
    Returned =>
        LET overview == plan.campaign_overview
            derived == DeriveCampaignParameters(movie_profile, ranked_regions,
                                                None, None, release_dt, now)
        IN /\ overview.duration_weeks = planning_parameters.campaign_weeks
           /\ overview.total_budget = planning_parameters.total_budget
           /\ campaign_weeks_arg.kind = "num" =>
                 overview.duration_weeks =
                    (IF campaign_weeks_arg.val < 1 THEN 1 ELSE campaign_weeks_arg.val)
           /\ budget_total_arg.kind = "num" =>
                 overview.total_budget = budget_total_arg.val
           /\ NoDurationOverride => overview.duration_weeks = derived.campaign_weeks
           /\ NoBudgetOverride => overview.total_budget = derived.total_budget

(* Both overrides outside what the derivation could produce *)
C12_Witness ==
    /\ Returned
    /\ campaign_weeks_arg = Num(20)
    /\ budget_total_arg = Num(123456)
    /\ plan.campaign_overview.duration_weeks = 20
    /\ plan.campaign_overview.total_budget = 123456

Clamp(x, lo, hi) == IF x < lo THEN lo ELSE IF x > hi THEN hi ELSE x

(* C13: without a duration override campaign_weeks is                        *)
(* clamp(base + [popularity >= 70] + [Tier-A count >= 3] +                   *)
(* [production budget >= 150,000,000], 4, 16), release_gap_weeks being the   *)
(* ceiling of max(0, whole days from now to release) / 7 and base being      *)
(* clamp(release_gap_weeks, 4, 16) if release_gap_weeks > 0 and 6 otherwise, *)
(* for every release gap, releases in the past included.                     *)
C13_DerivedWeeksFormula ==
    (Derived /\ NoDurationOverride) =>
        LET whole_days == (release_dt - now) \div TicksPerDay
            gap == IF whole_days <= 0 THEN 0 ELSE (whole_days + 6) \div 7
            base == IF gap > 0 THEN Clamp(gap, 4, 16) ELSE 6
            bonus == (IF planning_parameters.popularity >= 70 THEN 1 ELSE 0)
                     + (IF TierCount(ranked_regions, "A") >= 3 THEN 1 ELSE 0)
                     + (IF ProductionBudget(movie_profile) >= 150000000 THEN 1 ELSE 0)
        IN /\ planning_parameters.release_gap_weeks = gap
           /\ planning_parameters.campaign_weeks = Clamp(base + bonus, 4, 16)

(* A release in the past with all three bonuses: 6 + 3 weeks *)
C13_Witness ==
    /\ Derived /\ NoDurationOverride
    /\ release_dt < now
    /\ planning_parameters.release_gap_weeks = 0
    /\ planning_parameters.campaign_weeks = 9

(* r is the integer nearest to n / d, a tie going to the even one *)
NearestTiesEven(r, n, d) ==
    /\ 2 * Abs(r * d - n) <= d
    /\ 2 * Abs(r * d - n) = d => r % 2 = 0

(* o is round(total_weeks x multiplier / 100) clamped to >= min_week and     *)
(* <= total_weeks - 1, or total_weeks - 1 when total_weeks <= min_week       *)
IsOffset(o, total_weeks, multiplier, min_week) ==
    IF total_weeks <= min_week
    THEN o = total_weeks - 1
    ELSE \E r \in 0..total_weeks :
            /\ NearestTiesEven(r, total_weeks * multiplier, 100)
            /\ o = Clamp(Clamp(r, min_week, total_weeks), 0, total_weeks - 1)

(* The start offsets in weeks of the emitted phases with the given name *)
StartOffsets(name) ==
    {o \in 0..planning_parameters.campaign_weeks :
        \E i \in DOMAIN phases :
           /\ phases[i].name = name
           /\ phases[i].start_date = strftime(campaign_start) + 7 * o}

(* C14: for every total_weeks >= 1 the start offset of tier A is 0, of tier  *)
(* B round(total_weeks x 0.35) clamped to >= 1 and <= total_weeks - 1, of    *)
(* tier C round(total_weeks x 0.65) clamped to >= 2 and <= total_weeks - 1,  *)
(* and total_weeks - 1 when total_weeks does not exceed the minimum; so      *)
(* 0 <= B offset <= C offset <= total_weeks - 1.                             *)
C14_PhaseOffsets ==
    Phased =>
        LET total_weeks == planning_parameters.campaign_weeks
            a == StartOffsets(TierPhaseName("A"))
            b == StartOffsets(TierPhaseName("B"))
            c == StartOffsets(TierPhaseName("C"))
        IN /\ total_weeks >= 1
           /\ "A" \in PresentTiers => a = {0}
           /\ "B" \in PresentTiers =>
                 \E o \in b : b = {o} /\ IsOffset(o, total_weeks, 35, 1)
           /\ "C" \in PresentTiers =>
                 \E o \in c : c = {o} /\ IsOffset(o, total_weeks, 65, 2)
           /\ \A x \in b, y \in c : 0 <= x /\ x <= y /\ y <= total_weeks - 1

(* Ten weeks: 6.5 rounds to the even 6 for tier C, 3.5 to 4 for tier B *)
C14_Witness ==
    /\ Phased
    /\ planning_parameters.campaign_weeks = 10
    /\ StartOffsets(TierPhaseName("B")) = {4}
    /\ StartOffsets(TierPhaseName("C")) = {6}

(* The phases that have started by the start_date of timeline week w *)
StartedPhases(w) ==
    {i \in DOMAIN phases : phases[i].start_date <= timeline[w].start_date}

(* Phase i is the latest of the started ones, a tie going to the later index *)
LatestStarted(i, started) ==
    /\ i \in started
    /\ \A j \in started :
          \/ phases[j].start_date < phases[i].start_date
          \/ phases[j].start_date = phases[i].start_date /\ j <= i

(* C15: for every timeline week the active phase is the phase with the       *)
(* latest start_date among the phases whose start_date is <= the week's      *)
(* start_date, a tie going to the later phase in list order; the week's      *)
(* phase name, active_regions and intensity are copied from it; when no      *)
(* phase has started the week is 'Pre-campaign', without regions, Low.       *)
C15_ActivePhaseIsLatestStarted ==
    Timelined =>
        \A w \in DOMAIN timeline :
            IF StartedPhases(w) = {}
            THEN /\ timeline[w].phase = "Pre-campaign"
                 /\ timeline[w].active_regions = <<>>
                 /\ timeline[w].intensity = "Low"
            ELSE \E i \in StartedPhases(w) :
                    /\ LatestStarted(i, StartedPhases(w))
                    /\ timeline[w].phase = phases[i].name
                    /\ timeline[w].active_regions = phases[i].regions
                    /\ timeline[w].intensity = phases[i].intensity

(* A plan with a week before any phase starts, a week where two phases that  *)
(* start on the same date compete, and the later one is the active one       *)
C15_Witness ==
    /\ Timelined
    /\ \E w \in DOMAIN timeline : StartedPhases(w) = {}
    /\ \E w \in DOMAIN timeline :
          \E i \in StartedPhases(w), j \in StartedPhases(w) :
             /\ i < j
             /\ phases[i].start_date = phases[j].start_date
             /\ LatestStarted(j, StartedPhases(w))
             /\ timeline[w].phase = phases[j].name
             /\ phases[i].name # phases[j].name

(* C16: without a budget override the popularity multiplier is               *)
(* 1 + (clamp(popularity, 0, 100) / 100) x 0.35 (here over 10000) for every  *)
(* numeric popularity the movie profile supplies, 0 and out-of-range values  *)
(* included; only a missing or non-numeric popularity becomes 45.            *)
C16_PopularityMultiplierOfSuppliedValue ==
    (Derived /\ NoBudgetOverride) =>
        LET supplied == movie_profile.popularity
            effective == IF supplied.kind = "num" THEN supplied.val ELSE 45
        IN planning_parameters.popularity_factor
              = 10000 + 35 * Clamp(effective, 0, 100)

(* C17: without a budget override the fan-proof multiplier                   *)
(* 1 + min(vote_count / 50000, 1) x 0.15 is applied only if vote_count > 0;  *)
(* for vote_count <= 0 the budget is not changed by this step, so the step   *)
(* never lowers the budget.                                                  *)
C17_FanProofNeverLowers ==
    (Derived /\ NoBudgetOverride) =>
        LET vote_count == VoteCount(movie_profile)
            unvoted == [movie_profile EXCEPT !.vote_count = None]
        IN /\ vote_count > 0 =>
                planning_parameters.audience_factor
                   = 1000000 + 3 * Min(vote_count, 50000)
           /\ vote_count <= 0 =>
                /\ planning_parameters.audience_factor = 0
                /\ planning_parameters.total_budget
                      = DerivedBudget(unvoted, ranked_regions)
           /\ planning_parameters.total_budget
                 >= DerivedBudget(unvoted, ranked_regions)

(* amount is s / total x budget to the nearest cent, for total > 0 *)
IsShareToTheCent(amount, s, total, budget) ==
    LET rest == s * budget - amount.dollars * total
    IN /\ Abs(rest) <= total
       /\ 2 * Abs(amount.cents * total - 100 * rest) <= total

(* C18: _allocate_budget returns exactly one allocation per ranked region;   *)
(* each budget_amount is (suggested_budget_pct / sum of all                  *)
(* suggested_budget_pct) x total_budget rounded to 2 decimals and is >= 0;   *)
(* when the sum is zero every region gets amount 0 and percentage 0; the     *)
(* output is in non-increasing order of budget_amount.                       *)
C18_AllocationPerRegionSorted ==
    Allocated =>
        LET total == SumSuggested(ranked_regions, Len(ranked_regions))
            budget == planning_parameters.total_budget
        IN /\ Len(budget_allocation) = Len(ranked_regions)
           /\ \A i \in DOMAIN ranked_regions :
                 \E k \in DOMAIN budget_allocation :
                    /\ budget_allocation[k].region = ranked_regions[i].region
                    /\ \A j \in DOMAIN budget_allocation :
                          budget_allocation[j].region = ranked_regions[i].region
                             => j = k
                    /\ LET amount == budget_allocation[k].budget_amount
                       IN /\ 100 * amount.dollars + amount.cents >= 0
                          /\ IF total = 0
                             THEN /\ amount.dollars = 0 /\ amount.cents = 0
                                  /\ budget_allocation[k].percentage = 0
                             ELSE IsShareToTheCent(amount,
                                     ranked_regions[i].suggested_budget_pct,
                                     total, budget)
           /\ \A k \in 1..(Len(budget_allocation) - 1) :
                 ~AmountLess(budget_allocation[k].budget_amount,
                             budget_allocation[k + 1].budget_amount)

(* Three or more regions, the largest share not ranked first, and an amount  *)
(* that needed rounding to the cent                                          *)
C18_Witness ==
    /\ Allocated
    /\ Len(budget_allocation) >= 3
    /\ budget_allocation[1].region # ranked_regions[1].region
    /\ AmountLess(budget_allocation[Len(budget_allocation)].budget_amount,
                  budget_allocation[1].budget_amount)
    /\ \E k \in DOMAIN budget_allocation :
          budget_allocation[k].budget_amount.cents # 0

(* The offset multiplier in hundredths and the minimum week of a phase name *)
OffsetRule(name) ==
    IF name = TierPhaseName("B") THEN <<35, 1>>
    ELSE IF name = TierPhaseName("C") THEN <<65, 2>>
    ELSE <<0, 0>>

(* C19: in every returned plan the phases are in chronological order, every  *)
(* phase has campaign_start <= start_date < release date, and every phase    *)
(* runs exactly up to the release: start_date + duration_weeks x 7 days is   *)
(* the release date, with duration_weeks >= 1 and duration_weeks =           *)
(* campaign_weeks minus the tier's start offset.                             *)
C19_PhasesRunUpToRelease ==
    Returned =>
        LET total_weeks == planning_parameters.campaign_weeks
            release_day == strftime(release_dt)
        IN \A i \in DOMAIN phases :
              /\ phases[i].phase = i
              /\ \A j \in DOMAIN phases :
                    i < j => phases[i].start_date <= phases[j].start_date
              /\ strftime(campaign_start) <= phases[i].start_date
              /\ phases[i].start_date < release_day
              /\ phases[i].start_date + 7 * phases[i].duration_weeks = release_day
              /\ phases[i].duration_weeks >= 1
              /\ IF phases[i].name = TierPhaseName("A")
                 THEN phases[i].duration_weeks = total_weeks
                 ELSE IsOffset(total_weeks - phases[i].duration_weeks, total_weeks,
                               OffsetRule(phases[i].name)[1],
                               OffsetRule(phases[i].name)[2])

(* A returned plan of three phases on three different dates *)
C19_Witness ==
    /\ Returned
    /\ Len(phases) = 3
    /\ phases[1].start_date < phases[2].start_date
    /\ phases[2].start_date < phases[3].start_date
    /\ phases[3].duration_weeks >= 2
    /\ planning_parameters.campaign_weeks >= 4

(* The timeline weeks in which phase i is the active one *)
ActiveWeeks(i) ==
    {w \in DOMAIN timeline :
        /\ timeline[w].phase = phases[i].name
        /\ timeline[w].active_regions = phases[i].regions}

(* C20: in every returned plan the timeline has exactly campaign_weeks       *)
(* weeks, and when campaign_weeks >= 3 each emitted phase is the active      *)
(* phase of at least one week: no phase is shadowed by a later phase that    *)
(* starts on the same date.                                                  *)
C20_EveryPhaseHasAWeek ==
    Returned =>
        /\ Len(timeline) = planning_parameters.campaign_weeks
        /\ planning_parameters.campaign_weeks >= 3 =>
              /\ \A i \in DOMAIN phases : ActiveWeeks(i) # {}
              /\ \A i \in DOMAIN phases, j \in DOMAIN phases :
                    i < j => phases[i].start_date < phases[j].start_date

(* Three weeks and three phases: each phase is active in exactly one week *)
C20_Witness ==
    /\ Returned
    /\ planning_parameters.campaign_weeks = 3
    /\ Len(phases) = 3
    /\ \A i \in DOMAIN phases : ActiveWeeks(i) = {i}

(* The position of an activity bucket in the order the campaign goes through *)
BucketRank(bucket) ==
    IF bucket = "teaser" THEN 1
    ELSE IF bucket = "trailer" THEN 2
    ELSE IF bucket = "presale" THEN 3
    ELSE 4

(* Whole weeks from the start date of timeline week w to the release date *)
WeeksRemaining(w) == (strftime(release_dt) - timeline[w].start_date) \div 7

(* C21: along the timeline in week order the activity bucket is chosen from  *)
(* the whole weeks remaining until release at the week's start (>= 6         *)
(* teaser, >= 4 trailer, >= 2 intensify/pre-sale, otherwise final push), it  *)
(* never moves back to an earlier bucket as the weeks advance, and the last  *)
(* week of every non-empty timeline carries the final-push bucket.           *)
C21_ActivityBucketsAdvance ==
    Timelined =>
        /\ \A w \in DOMAIN timeline :
              LET remaining == WeeksRemaining(w)
              IN /\ remaining >= 6 => timeline[w].key_activities = "teaser"
                 /\ (remaining >= 4 /\ remaining < 6)
                       => timeline[w].key_activities = "trailer"
                 /\ (remaining >= 2 /\ remaining < 4)
                       => timeline[w].key_activities = "presale"
                 /\ remaining < 2 => timeline[w].key_activities = "final"
        /\ \A v \in DOMAIN timeline, w \in DOMAIN timeline :
              v < w => BucketRank(timeline[v].key_activities)
                          <= BucketRank(timeline[w].key_activities)
        /\ timeline # <<>> => timeline[Len(timeline)].key_activities = "final"

(* A timeline that goes through all four buckets and ends on the final push *)
C21_Witness ==
    /\ Timelined
    /\ \A b \in {"teaser", "trailer", "presale", "final"} :
          \E w \in DOMAIN timeline : timeline[w].key_activities = b
    /\ WeeksRemaining(1) = Len(timeline)
    /\ timeline[Len(timeline)].key_activities = "final"

====
